---- MODULE Spec2Model ----
(***************************************************************************)
(* A model of sasctl.pzmm: the model importer (import_model.py) and the    *)
(* fit-statistic writers (writeJSONFiles.py).                              *)
(*                                                                         *)
(* The remote SAS Model Manager repository is the shared state: the set of *)
(* projects and the set of models.  Every client (a Python thread or       *)
(* process that calls the library) runs one call at a time; each remote    *)
(* REST call of a call is one atomic step, so two clients interleave at    *)
(* the granularity of REST calls.                                          *)
(*                                                                         *)
(* Python values are written as strings: "None", "True", "False" (the      *)
(* bool), "'False'" (the str object), "[]" (an empty list), "empty" (an    *)
(* empty DataFrame), "given" (a non-empty argument).                       *)
(***************************************************************************)
EXTENDS Integers, Sequences, FiniteSets, TLC

\* ---------------------------------------------------------------- bounds
\* The number of calls made in a behaviour.
MaxCalls == 2
\* The number of fit-statistic calls made in a behaviour.
MaxFitCalls == 2

\* ------------------------------------------------------------ the domain
Procs == {1, 2}

\* The one project of the model: its name and its id (a UUID string).
ProjectName == "projA"
ProjectId == "uuidA"
ProjectArgs == {ProjectName, ProjectId}

\* The versions every project has, and the one its latestVersion names.
ProjectVersions == <<"v1", "v2">>
LatestVersion == "v2"
\* "vX" names no version of the project.
VersionArgs == {"latest", "v1", "vX"}

ModelNames == {"m1", "m2"}

BoolVals == {"True", "False"}

\* The input_data, predict_method and score_metrics arguments of a call:
\* all given, or one of them None or empty.
ScoreArgs ==
    {<<"given", "given", "given">>,
     <<"None", "given", "given">>, <<"empty", "given", "given">>,
     <<"given", "[]", "given">>, <<"given", "given", "None">>}

\* Python truthiness of the values above (bool(v)).
Truthy(v) == v \notin {"None", "False", "[]"}

\* uuid.UUID(s) returns for a well-formed UUID string and raises ValueError
\* for any other string.
ParsesAsUUID(s) == s = ProjectId

VARIABLES
    projects,     \* remote: the names of the projects that exist
    models,       \* remote: the models, [id, name, version, hasScore]
    nextId,       \* remote: the id the next imported model gets
    createCount,  \* the number of create_project calls made so far
    viya,         \* current_session().version_info(): 4 or 3 (Viya 3.5)
    ncalls,       \* the number of calls started so far
    pc,           \* each client's position in its call
    args,         \* each client's call arguments
    loc,          \* each client's local variables
    fitFile,      \* jPath / dmcas_fitstat.json: NoFile or its content
    fitCall,      \* the last fit-statistic call: its arguments and outcome
    rocFile,      \* jPath / dmcas_roc.json: NoFile or its content
    liftFile      \* jPath / dmcas_lift.json: NoFile or its content

vars == <<projects, models, nextId, createCount, viya, ncalls, pc, args, loc,
          fitFile, fitCall, rocFile, liftFile>>

remoteVars == <<projects, models, nextId, createCount>>
fitVars == <<fitFile, fitCall, rocFile, liftFile>>

NoArgs == [kind |-> "none"]
NoLoc == [branch |-> "none"]

\* Python's None where the other values are records (REST responses).
NoneVal == [call |-> "None"]

\* The locals of a call as it starts.
StartLoc ==
    [branch |-> "none",
     files |-> {"model"},        \* model_files: the artifacts it holds
     zip_io_file |-> NoneVal,
     project_response |-> "None",
     project |-> "None",
     version_id |-> "None",
     project_models |-> <<>>,
     deleted |-> {},             \* ids passed to delete_model
     model |-> NoneVal,
     score_model |-> NoneVal,    \* the model= argument of write_score_code
     ret |-> NoneVal,
     exc |-> "None",
     warned |-> FALSE,           \* the "no score code" warning was issued
     version_checked |-> FALSE,  \* version_info() was consulted
     before |-> {},              \* the repository's models as the call starts
     log |-> <<>>]               \* the collaborators called, in order

\* A file that does not exist.
NoFile == [exists |-> FALSE]

\* A model of the repository.
Model(id, name, version, hasScore) ==
    [id |-> id, name |-> name, version |-> version, hasScore |-> hasScore]

\* The repositories a behaviour starts from: no project; an empty project;
\* a project whose latest version holds one model; one that holds three,
\* two of them of the same name (the client cannot rule that out).
InitialModels ==
    {{}, {Model(1, "m1", "v2", FALSE)},
     {Model(1, "m1", "v2", FALSE), Model(2, "m2", "v2", TRUE),
      Model(3, "m1", "v2", FALSE)}}

Init ==
    /\ \/ projects = {} /\ models = {}
       \/ projects = {ProjectName} /\ models \in InitialModels
    /\ nextId = Cardinality(models) + 1
    /\ createCount = 0
    /\ viya \in {3, 4}
    /\ ncalls = 0
    /\ pc = [p \in Procs |-> "idle"]
    /\ args = [p \in Procs |-> NoArgs]
    /\ loc = [p \in Procs |-> NoLoc]
    /\ fitFile = NoFile
    /\ fitCall = [op |-> "none", n |-> 0]
    /\ rocFile = NoFile
    /\ liftFile = NoFile

\* ------------------------------------------------------- pure functions

\* mr.get_project(project): the project whose name or id is the argument,
\* None when there is none.
get_project(project, existing) ==
    IF project \in {ProjectName, ProjectId} /\ ProjectName \in existing
    THEN ProjectName
    ELSE "None"

\* project_exists without the test of response: it never returns the
\* project that was found.
project_exists_IgnoresResponse(project, response) ==
    IF ParsesAsUUID(project)
    THEN [do |-> "raise", exc |-> "SystemError"]
    ELSE [do |-> "create", exc |-> "None"]

\* project_exists without the UUID test: every unknown project is created.
project_exists_NoUUIDTest(project, response) ==
    IF response = "None"
    THEN [do |-> "create", exc |-> "None"]
    ELSE [do |-> "return", exc |-> "None"]

\* project_exists (lines 43-59): what it does for a project argument and
\* the response of get_project.
project_exists(project, response) ==
    IF response = "None"
    THEN IF ParsesAsUUID(project)
         THEN [do |-> "raise", exc |-> "SystemError"]
         ELSE [do |-> "create", exc |-> "None"]
    ELSE [do |-> "return", exc |-> "None"]

\* The default of model_exists' force parameter: the string "False".
ForceDefault == "'False'"

\* model_exists, lines 96-101: the id of the version named version_name,
\* "unbound" when the loop ends without assigning version_id.
VersionId(version_name) ==
    LET name == IF version_name = "latest" THEN LatestVersion ELSE version_name
    IN IF \E i \in 1..Len(ProjectVersions) : ProjectVersions[i] = name
       THEN name
       ELSE "unbound"

\* The models of a set as the list a GET returns, ordered by id.
RECURSIVE ModelList(_)
ModelList(S) ==
    IF S = {} THEN <<>>
    ELSE LET m == CHOOSE x \in S : \A y \in S : x.id <= y.id
         IN <<[id |-> m.id, name |-> m.name]>> \o ModelList(S \ {m})

\* The type sasctl gives the response of a GET of a collection: an empty
\* list, the single item as a RestObj, or a PagedList of several.
ResponseType(project_models) ==
    IF Len(project_models) = 0 THEN "empty"
    ELSE IF Len(project_models) = 1 THEN "RestObj"
    ELSE "PagedList"

\* The loop with a break after the first delete_model.
RECURSIVE PagedLoop_BreaksAfterDelete(_, _, _, _)
PagedLoop_BreaksAfterDelete(project_models, i, name, force) ==
    IF i > Len(project_models)
    THEN [deleted |-> {}, exc |-> "None"]
    ELSE IF project_models[i].name = name /\ Truthy(force)
    THEN [deleted |-> {project_models[i].id}, exc |-> "None"]
    ELSE IF project_models[i].name = name /\ ~Truthy(force)
    THEN [deleted |-> {}, exc |-> "ValueError"]
    ELSE PagedLoop_BreaksAfterDelete(project_models, i + 1, name, force)

\* model_exists, lines 118-126: the loop over a PagedList from item i on.
RECURSIVE PagedLoop(_, _, _, _)
PagedLoop(project_models, i, name, force) ==
    IF i > Len(project_models)
    THEN [deleted |-> {}, exc |-> "None"]
    ELSE IF project_models[i].name = name /\ Truthy(force)
    THEN LET rest == PagedLoop(project_models, i + 1, name, force)
         IN [deleted |-> {project_models[i].id} \cup rest.deleted,
             exc |-> rest.exc]
    ELSE IF project_models[i].name = name /\ ~Truthy(force)
    THEN [deleted |-> {}, exc |-> "ValueError"]
    ELSE PagedLoop(project_models, i + 1, name, force)

\* model_exists without the tests of force: a model of the name is deleted.
model_exists_IgnoresForce(project_models, name, force) ==
    IF ResponseType(project_models) = "empty"
    THEN [deleted |-> {}, exc |-> "None"]
    ELSE IF ResponseType(project_models) = "RestObj"
    THEN IF project_models[1].name = name
         THEN [deleted |-> {project_models[1].id}, exc |-> "None"]
         ELSE [deleted |-> {}, exc |-> "None"]
    ELSE PagedLoop(project_models, 1, name, "True")

\* model_exists, lines 106-126: the ids it passes to delete_model and the
\* exception it raises, for the response of the GET of the version's models.
model_exists(project_models, name, force) ==
    IF ResponseType(project_models) = "empty"
    THEN [deleted |-> {}, exc |-> "None"]
    ELSE IF ResponseType(project_models) = "RestObj"
    THEN IF project_models[1].name = name /\ Truthy(force)
         THEN [deleted |-> {project_models[1].id}, exc |-> "None"]
         ELSE IF project_models[1].name = name /\ ~Truthy(force)
         THEN [deleted |-> {}, exc |-> "ValueError"]
         ELSE [deleted |-> {}, exc |-> "None"]
    ELSE PagedLoop(project_models, 1, name, force)

\* Line 251 with "and" for "or".
NoScoreCode_AllMissing(input_data, predict_method, score_metrics) ==
    input_data = "None" /\ ~Truthy(predict_method) /\ ~Truthy(score_metrics)

\* import_model, line 251: no score code is generated.
NoScoreCode(input_data, predict_method, score_metrics) ==
    input_data = "None" \/ ~Truthy(predict_method) \/ ~Truthy(score_metrics)

\* import_model, lines 251, 281, 336: the branch a call takes.
Branch(input_data, predict_method, score_metrics, version_info) ==
    IF NoScoreCode(input_data, predict_method, score_metrics) THEN "noscore"
    ELSE IF version_info = 4 THEN "viya4"
    ELSE "viya35"

\* Every branch zips first: Viya 4 handled as Viya 3.5 is.
FirstStep_ZipFirst(branch) == "zip_files"

\* import_model, lines 281-282 and 336-338: what a branch does first. Only
\* Viya 4 writes the score code before it zips the model files.
FirstStep(branch) ==
    IF branch = "viya4" THEN "write_score_code" ELSE "zip_files"

\* import_model, lines 278, 333 and 368: what follows the import. Viya 3.5
\* writes the score code then; the other branches return.
AfterImport(branch) ==
    IF branch = "viya35" THEN "write_score_code" ELSE "done"

\* The exception of model_exists caught and dropped: the call goes on.
AfterModelExists_SwallowsError(exc, kind) ==
    IF kind = "import_model" THEN "import_model_from_zip"
    ELSE IF exc # "None" THEN "raised"
    ELSE "done"

\* What follows model_exists: its exception propagates (import_model has
\* no handler, lines 271-273); otherwise import_model goes on to
\* import_model_from_zip (line 275), and a direct call returns.
AfterModelExists(exc, kind) ==
    IF exc # "None" THEN "raised"
    ELSE IF kind = "import_model" THEN "import_model_from_zip"
    ELSE "done"

\* The force argument model_exists works with.
Force(a) == IF a.force = "omitted" THEN ForceDefault ELSE a.force

\* zm.zip_files(model_files, model_prefix, is_viya4): the archive of the
\* files model_files holds when it is called.
zip_files(files, is_viya4) ==
    [call |-> "zip_files", files |-> files, is_viya4 |-> is_viya4]

\* ------------------------------------------------------------- the calls

Set(p, f) == loc' = [loc EXCEPT ![p] = f]
Log(p, name) == Append(loc[p].log, name)
Goto(p, label) == pc' = [pc EXCEPT ![p] = label]

\* A client calls ImportModel.import_model (lines 246-263, 281, 336): the
\* branch is chosen; the no-score branch warns, the others consult the
\* session's version.
CallImportModel(p, a) ==
    /\ pc[p] = "idle"
    /\ ncalls < MaxCalls
    /\ ncalls' = ncalls + 1
    /\ args' = [args EXCEPT ![p] = a]
    /\ LET none == NoScoreCode(a.input_data, a.predict_method, a.score_metrics)
           b == Branch(a.input_data, a.predict_method, a.score_metrics, viya)
       IN /\ Set(p, [StartLoc EXCEPT !.branch = b,
                                     !.warned = none,
                                     !.version_checked = ~none,
                                     !.before = models])
          /\ Goto(p, FirstStep(b))
    /\ UNCHANGED <<remoteVars, viya, fitVars>>

ImportArgs ==
    [kind : {"import_model"},
     model_prefix : ModelNames,
     project : ProjectArgs,
     project_version : VersionArgs,
     force : BoolVals,
     input_data : {s[1] : s \in ScoreArgs},
     predict_method : {s[2] : s \in ScoreArgs},
     score_metrics : {s[3] : s \in ScoreArgs}]

\* A client calls model_exists itself, with or without a force argument.
CallModelExists(p, a) ==
    /\ pc[p] = "idle"
    /\ ncalls < MaxCalls
    /\ ncalls' = ncalls + 1
    /\ args' = [args EXCEPT ![p] = a]
    /\ Set(p, [StartLoc EXCEPT !.branch = "direct",
                               !.project = a.project,
                               !.before = models])
    /\ Goto(p, "model_exists")
    /\ UNCHANGED <<remoteVars, viya, fitVars>>

ModelExistsArgs ==
    [kind : {"model_exists"},
     model_prefix : ModelNames,
     project : ProjectArgs,
     project_version : VersionArgs,
     force : {"omitted"} \cup BoolVals]

\* sc.write_score_code on Viya 4 (lines 282-296): the score code joins the
\* model files before they are zipped.
WriteScoreCodeViya4(p) ==
    /\ pc[p] = "write_score_code"
    /\ loc[p].branch = "viya4"
    /\ Set(p, [loc[p] EXCEPT !.files = @ \cup {"score"},
                             !.log = Log(p, "write_score_code")])
    /\ Goto(p, "zip_files")
    /\ UNCHANGED <<remoteVars, viya, ncalls, args, fitVars>>

\* zm.zip_files (lines 256-261, 297-307, 337-342).
ZipFiles(p) ==
    /\ pc[p] = "zip_files"
    /\ Set(p, [loc[p] EXCEPT
                 !.zip_io_file = zip_files(loc[p].files, loc[p].branch = "viya4"),
                 !.log = Log(p, "zip_files")])
    /\ Goto(p, "get_project")
    /\ UNCHANGED <<remoteVars, viya, ncalls, args, fitVars>>

\* mr.get_project(project) (lines 267, 313, 348).
GetProject(p) ==
    /\ pc[p] = "get_project"
    /\ Set(p, [loc[p] EXCEPT
                 !.project_response = get_project(args[p].project, projects),
                 !.log = Log(p, "get_project")])
    /\ Goto(p, "project_exists")
    /\ UNCHANGED <<remoteVars, viya, ncalls, args, fitVars>>

\* project_exists(project, project_response) (lines 268, 314, 349).
ProjectExists(p) ==
    /\ pc[p] = "project_exists"
    /\ LET r == project_exists(args[p].project, loc[p].project_response)
       IN \/ /\ r.do = "return"
             /\ Set(p, [loc[p] EXCEPT !.project = loc[p].project_response,
                                      !.log = Log(p, "project_exists")])
             /\ Goto(p, "model_exists")
             /\ UNCHANGED <<projects, createCount>>
          \/ /\ r.do = "create"
             /\ projects' = projects \cup {args[p].project}
             /\ createCount' = createCount + 1
             /\ Set(p, [loc[p] EXCEPT !.project = args[p].project,
                                      !.log = Log(p, "project_exists")
                                              \o <<"create_project">>])
             /\ Goto(p, "model_exists")
          \/ /\ r.do = "raise"
             /\ Set(p, [loc[p] EXCEPT !.exc = r.exc,
                                      !.log = Log(p, "project_exists")])
             /\ Goto(p, "raised")
             /\ UNCHANGED <<projects, createCount>>
    /\ UNCHANGED <<models, nextId, viya, ncalls, args, fitVars>>

\* model_exists, lines 93-104: the project, its versions and the models of
\* the version are fetched.
ModelExistsFetch(p) ==
    /\ pc[p] = "model_exists"
    /\ LET project == get_project(loc[p].project, projects)
           version_id == VersionId(args[p].project_version)
       IN IF project = "None"
          THEN /\ Set(p, [loc[p] EXCEPT !.exc = "TypeError",
                                        !.log = Log(p, "model_exists")])
               /\ Goto(p, "raised")
          ELSE IF version_id = "unbound"
          THEN /\ Set(p, [loc[p] EXCEPT !.exc = "UnboundLocalError",
                                        !.log = Log(p, "model_exists")])
               /\ Goto(p, "raised")
          ELSE /\ Set(p, [loc[p] EXCEPT
                            !.version_id = version_id,
                            !.project_models =
                                ModelList({m \in models : m.version = version_id}),
                            !.log = Log(p, "model_exists")])
               /\ Goto(p, "model_exists_check")
    /\ UNCHANGED <<remoteVars, viya, ncalls, args, fitVars>>

\* model_exists, lines 106-126: same-name models are deleted or reported.
ModelExistsCheck(p) ==
    /\ pc[p] = "model_exists_check"
    /\ LET r == model_exists(loc[p].project_models, args[p].model_prefix,
                             Force(args[p]))
       IN /\ models' = {m \in models : m.id \notin r.deleted}
          /\ Set(p, [loc[p] EXCEPT !.deleted = r.deleted, !.exc = r.exc])
          /\ Goto(p, AfterModelExists(r.exc, args[p].kind))
    /\ UNCHANGED <<projects, nextId, createCount, viya, ncalls, args, fitVars>>

\* The response of a POST or GET of a model.
Response(call, m) ==
    [call |-> call, id |-> m.id, name |-> m.name, hasScore |-> m.hasScore]

\* mr.import_model_from_zip (lines 275, 321, 356): the repository registers
\* the model, or may refuse a name the project already holds.
ImportModelFromZip(p) ==
    /\ pc[p] = "import_model_from_zip"
    /\ \/ LET m == Model(nextId, args[p].model_prefix,
                          VersionId(args[p].project_version),
                          "score" \in loc[p].zip_io_file.files)
              response == Response("import_model_from_zip", m)
          IN /\ models' = models \cup {m}
             /\ nextId' = nextId + 1
             /\ Set(p, [loc[p] EXCEPT
                          !.model = response,
                          !.ret = IF AfterImport(loc[p].branch) = "done"
                                  THEN response ELSE @,
                          !.log = Log(p, "import_model_from_zip")])
             /\ Goto(p, AfterImport(loc[p].branch))
       \/ /\ \E m \in models : m.name = args[p].model_prefix
          /\ Set(p, [loc[p] EXCEPT !.exc = "HTTPError",
                                   !.log = Log(p, "import_model_from_zip")])
          /\ Goto(p, "raised")
          /\ UNCHANGED <<models, nextId>>
    /\ UNCHANGED <<projects, createCount, viya, ncalls, args, fitVars>>

\* sc.write_score_code on Viya 3.5 (lines 368-383): called with the imported
\* model, it writes the score code and uploads it to that model.
WriteScoreCodeViya35(p) ==
    /\ pc[p] = "write_score_code"
    /\ loc[p].branch = "viya35"
    /\ models' = {IF m.id = loc[p].model.id THEN [m EXCEPT !.hasScore = TRUE]
                  ELSE m : m \in models}
    /\ Set(p, [loc[p] EXCEPT !.files = @ \cup {"score"},
                             !.score_model = loc[p].model,
                             !.log = Log(p, "write_score_code")])
    /\ Goto(p, "get_model")
    /\ UNCHANGED <<projects, nextId, createCount, viya, ncalls, args, fitVars>>

\* return mr.get_model(model), model_files (lines 384, 392).
GetModel(p) ==
    /\ pc[p] = "get_model"
    /\ LET found == {m \in models : m.id = loc[p].model.id}
       IN Set(p, [loc[p] EXCEPT
                    !.ret = IF found = {} THEN NoneVal
                            ELSE Response("get_model", CHOOSE m \in found : TRUE),
                    !.log = Log(p, "get_model")])
    /\ Goto(p, "done")
    /\ UNCHANGED <<remoteVars, viya, ncalls, args, fitVars>>

\* The call has returned or raised; the client is free for its next call.
Finish(p) ==
    /\ pc[p] \in {"done", "raised"}
    /\ Goto(p, "idle")
    /\ args' = [args EXCEPT ![p] = NoArgs]
    /\ loc' = [loc EXCEPT ![p] = NoLoc]
    /\ UNCHANGED <<remoteVars, viya, ncalls, fitVars>>

\* The steps of a call under way.
Step(p) ==
    \/ WriteScoreCodeViya4(p)
    \/ ZipFiles(p)
    \/ GetProject(p)
    \/ ProjectExists(p)
    \/ ModelExistsFetch(p)
    \/ ModelExistsCheck(p)
    \/ ImportModelFromZip(p)
    \/ WriteScoreCodeViya35(p)
    \/ GetModel(p)
    \/ Finish(p)

\* Sequential use: one client makes its calls one after the other.
Client == CHOOSE p \in Procs : \A q \in Procs : p <= q

StartImportModel ==
    \E a \in ImportArgs :
        /\ <<a.input_data, a.predict_method, a.score_metrics>> \in ScoreArgs
        /\ CallImportModel(Client, a)

StartModelExists ==
    \E a \in ModelExistsArgs : CallModelExists(Client, a)

Run == \E p \in Procs : Step(p)

Next == StartImportModel \/ StartModelExists \/ Run

Spec == Init /\ [][Next]_vars

\* ------------------------------------------------------ concurrent use
\* Two clients import into the latest version of the same project at the
\* same time; their REST calls interleave.
ConcurrentArgs ==
    {a \in ImportArgs :
        /\ a.project = ProjectName
        /\ a.project_version = "latest"
        /\ <<a.input_data, a.predict_method, a.score_metrics>>
               \in {<<"None", "given", "given">>, <<"given", "given", "given">>}}

StartConcurrent ==
    \E p \in Procs : \E a \in ConcurrentArgs : CallImportModel(p, a)

NextConcurrent == StartConcurrent \/ Run

SpecConcurrent == Init /\ [][NextConcurrent]_vars

\* ------------------------------------------------------ fit statistics
\* A partition argument: None, or one of two data sets of actual and
\* predicted values.
DataVals == {"None", "d1", "d2"}

\* len(dataSets[j][0]): the number of observations of a data set.
NObs(d) == IF d = "d1" THEN 2 ELSE 3

\* The values of a statistic in the JSON file: null or a number.
Null == [json |-> "null", n |-> 0]
Num(n) == [json |-> "number", n |-> n]

\* The entries of data in null_dmcas_fitstat.json: the row's number, and
\* a dataMap in which every statistic is null.
NullEntry(i) ==
    [rowNumber |-> i + 1,
     _PartInd_ |-> Null, _NObs_ |-> Null, _DIV_ |-> Null,
     _KSPostCutoff_ |-> Null, _KSCut_ |-> Null, metrics |-> "null"]

NullTemplate == [exists |-> TRUE, data |-> [i \in 0..2 |-> NullEntry(i)]]

\* calculateFitStat, lines 398-446: the dataMap of partition j for data
\* set d; metrics stands for the statistics scikit-learn and scipy compute
\* from d.
FitStats(j, d) ==
    [NullEntry(j) EXCEPT !._PartInd_ = Num(j),
                         !._NObs_ = Num(NObs(d)),
                         !._DIV_ = Num(NObs(d)),
                         !._KSPostCutoff_ = Null,
                         !._KSCut_ = Null,
                         !.metrics = d]

\* calculateFitStat without the test of dataPartitionExists: the null
\* template is written when no data is given.
calculateFitStat_NoTest(validateData, trainData, testData, file) ==
    LET dataSets == [i \in 0..2 |-> IF i = 0 THEN validateData
                                    ELSE IF i = 1 THEN trainData
                                    ELSE testData]
    IN [exc |-> "None",
        file |-> [NullTemplate EXCEPT !.data =
                    [j \in 0..2 |->
                       IF dataSets[j] # "None"
                       THEN FitStats(j, dataSets[j])
                       ELSE NullTemplate.data[j]]]]

\* calculateFitStat with the partitions in the order of convertDataRole:
\* train, test, validate.
calculateFitStat_RoleOrder(validateData, trainData, testData, file) ==
    LET dataSets == [i \in 0..2 |-> IF i = 0 THEN trainData
                                    ELSE IF i = 1 THEN testData
                                    ELSE validateData]
        dataPartitionExists == {i \in 0..2 : dataSets[i] # "None"}
    IN IF dataPartitionExists = {}
       THEN [exc |-> "ValueError", file |-> file]
       ELSE [exc |-> "None",
             file |-> [NullTemplate EXCEPT !.data =
                         [j \in 0..2 |->
                            IF j \in dataPartitionExists
                            THEN FitStats(j, dataSets[j])
                            ELSE NullTemplate.data[j]]]]

\* calculateFitStat, lines 378-449: the exception it raises and the file
\* at jPath / dmcas_fitstat.json after it, given the file before it.
calculateFitStat(validateData, trainData, testData, file) ==
    LET dataSets == [i \in 0..2 |-> IF i = 0 THEN validateData
                                    ELSE IF i = 1 THEN trainData
                                    ELSE testData]
        dataPartitionExists == {i \in 0..2 : dataSets[i] # "None"}
    IN IF dataPartitionExists = {}
       THEN [exc |-> "ValueError", file |-> file]
       ELSE [exc |-> "None",
             file |-> [NullTemplate EXCEPT !.data =
                         [j \in 0..2 |->
                            IF j \in dataPartitionExists
                            THEN FitStats(j, dataSets[j])
                            ELSE NullTemplate.data[j]]]]

\* A call of JSONFiles.calculateFitStat.
CalculateFitStat(validateData, trainData, testData) ==
    /\ fitCall.n < MaxFitCalls
    /\ LET r == calculateFitStat(validateData, trainData, testData, fitFile)
       IN /\ fitFile' = r.file
          /\ fitCall' = [op |-> "calculateFitStat", n |-> fitCall.n + 1,
                         validateData |-> validateData,
                         trainData |-> trainData,
                         testData |-> testData,
                         exc |-> r.exc]
    /\ UNCHANGED <<remoteVars, viya, ncalls, pc, args, loc, rocFile, liftFile>>

\* The rows of one partition in dmcas_roc.json (line 541) and in
\* dmcas_lift.json (line 567).
RocRows == 100
LiftRows == 21

\* The partitions given, in the order of enumerate (lines 499-503).
PartitionList(validateData, trainData, testData) ==
    (IF validateData # "None" THEN <<0>> ELSE <<>>)
    \o (IF trainData # "None" THEN <<1>> ELSE <<>>)
    \o (IF testData # "None" THEN <<2>> ELSE <<>>)

\* The calls made on the CAS connection for the partitions from the k-th
\* on (lines 530-539).
RECURSIVE AssessCalls(_, _)
AssessCalls(partitions, k) ==
    IF k > Len(partitions) THEN <<>>
    ELSE <<"read_frame", "assess", "CASTable", "CASTable">>
         \o AssessCalls(partitions, k + 1)

\* The data of a ROC or Lift file (lines 541-607): for each partition
\* given, a block of rows filled from its data set; the rows of the other
\* partitions are removed and the rest renumbered from 1.
Blocks(partitions, dataSets, rows) ==
    [k \in 1..Len(partitions) |->
        [partition |-> partitions[k],
         data |-> dataSets[partitions[k]],
         firstRow |-> (k - 1) * rows + 1,
         lastRow |-> k * rows]]

\* generateROCLiftStat without the test of dataPartitionExists.
generateROCLiftStat_NoTest(validateData, trainData, testData, roc, lift) ==
    LET dataSets == [i \in 0..2 |-> IF i = 0 THEN validateData
                                    ELSE IF i = 1 THEN trainData
                                    ELSE testData]
        dataPartitionExists == PartitionList(validateData, trainData, testData)
    IN [exc |-> "None",
        cas |-> <<"loadactionset">> \o AssessCalls(dataPartitionExists, 1),
        roc |-> [exists |-> TRUE,
                 data |-> Blocks(dataPartitionExists, dataSets, RocRows)],
        lift |-> [exists |-> TRUE,
                  data |-> Blocks(dataPartitionExists, dataSets, LiftRows)]]

\* generateROCLiftStat, lines 490-613: the exception it raises, the calls
\* it makes on swatConn and the two files after it, given them before it.
generateROCLiftStat(validateData, trainData, testData, roc, lift) ==
    LET dataSets == [i \in 0..2 |-> IF i = 0 THEN validateData
                                    ELSE IF i = 1 THEN trainData
                                    ELSE testData]
        dataPartitionExists == PartitionList(validateData, trainData, testData)
    IN IF Len(dataPartitionExists) = 0
       THEN [exc |-> "ValueError", cas |-> <<>>, roc |-> roc, lift |-> lift]
       ELSE [exc |-> "None",
             cas |-> <<"loadactionset">> \o AssessCalls(dataPartitionExists, 1),
             roc |-> [exists |-> TRUE,
                      data |-> Blocks(dataPartitionExists, dataSets, RocRows)],
             lift |-> [exists |-> TRUE,
                       data |-> Blocks(dataPartitionExists, dataSets, LiftRows)]]

\* A call of JSONFiles.generateROCLiftStat.
GenerateROCLiftStat(validateData, trainData, testData) ==
    /\ fitCall.n < MaxFitCalls
    /\ LET r == generateROCLiftStat(validateData, trainData, testData,
                                    rocFile, liftFile)
       IN /\ rocFile' = r.roc
          /\ liftFile' = r.lift
          /\ fitCall' = [op |-> "generateROCLiftStat", n |-> fitCall.n + 1,
                         validateData |-> validateData,
                         trainData |-> trainData,
                         testData |-> testData,
                         exc |-> r.exc,
                         cas |-> r.cas]
    /\ UNCHANGED <<remoteVars, viya, ncalls, pc, args, loc, fitFile>>

\* ---------------------------------------------------------------------
\* writeBaseFitStat: the fit statistics given as tuples.

MaxTuples == 1

\* A parameter name is its core with or without a leading and a trailing
\* underscore.
ParamName(core, formatted) ==
    [lead |-> formatted, core |-> core, trail |-> formatted]

Key(paramName) ==
    (IF paramName.lead THEN "_" ELSE "") \o paramName.core
        \o (IF paramName.trail THEN "_" ELSE "")

StrRole(s) == [type |-> "str", s |-> s, n |-> 0]
IntRole(n) == [type |-> "int", s |-> "", n |-> n]

DataRoles ==
    {StrRole("TRAIN"), StrRole("TEST"), StrRole("VALIDATE"),
     StrRole("HOLDOUT"), IntRole(2), IntRole(4)}

ParamTuple(len, name, role) ==
    [len |-> len, name |-> name, value |-> Num(3488), role |-> role]

\* The tuples of tupleList: (name, value, role) with NObs under every role,
\* with a formatted and with an unknown name, and one of four elements.
ParamTuples ==
    {ParamTuple(3, ParamName("NObs", FALSE), r) : r \in DataRoles}
    \cup {ParamTuple(3, ParamName("NObs", TRUE), StrRole("TEST")),
          ParamTuple(3, ParamName("bogus", FALSE), StrRole("TRAIN")),
          ParamTuple(4, ParamName("NObs", FALSE), StrRole("TRAIN"))}

TupleLists == UNION {[1..n -> ParamTuples] : n \in 0..MaxTuples}

validParams ==
    {"_RASE_", "_NObs_", "_GINI_", "_GAMMA_", "_MCE_", "_ASE_", "_MCLL_",
     "_KS_", "_KSPostCutoff_", "_DIV_", "_TAU_", "_KSCut_", "_C_"}

formatParameter(paramName) ==
    IF ~(paramName.lead /\ paramName.trail)
    THEN [paramName EXCEPT !.lead = TRUE, !.trail = TRUE]
    ELSE paramName

convertDataRole(dataRole) ==
    IF dataRole.type = "int"
    THEN IF dataRole.n = 1 THEN StrRole("TRAIN")
         ELSE IF dataRole.n = 2 THEN StrRole("TEST")
         ELSE IF dataRole.n = 3 THEN StrRole("VALIDATE")
         ELSE StrRole("TRAIN")
    ELSE IF dataRole.s = "TRAIN" THEN IntRole(1)
         ELSE IF dataRole.s = "TEST" THEN IntRole(2)
         ELSE IF dataRole.s = "VALIDATE" THEN IntRole(3)
         ELSE IntRole(1)

\* dataMap[k] of a list of three entries: Python counts a negative index
\* from the end and raises IndexError outside -3..2.
ListIndex(k) == IF k < 0 THEN k + 3 ELSE k

\* The loop of lines 284-294 from the k-th tuple on.
RECURSIVE ApplyTuples(_, _, _)
ApplyTuples(tupleList, k, dataMap) ==
    IF k > Len(tupleList) THEN [exc |-> "None", dataMap |-> dataMap]
    ELSE LET paramTuple == tupleList[k]
             paramName == Key(formatParameter(paramTuple.name))
             dataRole == IF paramTuple.role.type = "str"
                         THEN convertDataRole(paramTuple.role).n
                         ELSE paramTuple.role.n
         IN IF paramTuple.len # 3 \/ paramName \notin validParams
            THEN ApplyTuples(tupleList, k + 1, dataMap)
            ELSE IF ListIndex(dataRole - 1) \notin 0..2
            THEN [exc |-> "IndexError", dataMap |-> dataMap]
            ELSE ApplyTuples(tupleList, k + 1,
                     [dataMap EXCEPT ![ListIndex(dataRole - 1)][paramName] =
                                         paramTuple.value])

\* writeBaseFitStat with csvPath None and userInput False, lines 276-334:
\* the exception it raises and the file it leaves.
writeBaseFitStat(tupleList, file) ==
    LET r == ApplyTuples(tupleList, 1, NullTemplate.data)
    IN IF r.exc # "None"
       THEN [exc |-> r.exc, file |-> file]
       ELSE [exc |-> "None",
             file |-> [NullTemplate EXCEPT !.data = r.dataMap]]

WriteBaseFitStat(tupleList) ==
    /\ fitCall.n < MaxFitCalls
    /\ LET r == writeBaseFitStat(tupleList, fitFile)
       IN /\ fitFile' = r.file
          /\ fitCall' = [op |-> "writeBaseFitStat", n |-> fitCall.n + 1,
                         tupleList |-> tupleList,
                         exc |-> r.exc]
    /\ UNCHANGED <<remoteVars, viya, ncalls, pc, args, loc, rocFile, liftFile>>

NextFit ==
    \/ \E validateData, trainData, testData \in DataVals :
           CalculateFitStat(validateData, trainData, testData)
    \/ \E tupleList \in TupleLists : WriteBaseFitStat(tupleList)
    \/ \E validateData, trainData, testData \in DataVals :
           GenerateROCLiftStat(validateData, trainData, testData)

\* The writers of the fit statistics use no session and no repository:
\* their behaviours start from the empty repository.
InitFit == Init /\ projects = {} /\ viya = 4

SpecFit == InitFit /\ [][NextFit]_vars

\* ============================================================ properties

Called(p, name) == \E i \in 1..Len(loc[p].log) : loc[p].log[i] = name

\* The models of a set that have the name and are in the version.
Named(S, name, version) == {m \in S : m.name = name /\ m.version = version}

Ids(S) == {m.id : m \in S}

Running(p, kind) == pc[p] # "idle" /\ args[p].kind = kind
Ended(p) == pc[p] \in {"done", "raised"}

\* The models of the call's target version that had its name as it started.
SameName(p) ==
    Named(loc[p].before, args[p].model_prefix, VersionId(args[p].project_version))

\* C1: an import_model call with overwrite_model=False that starts while
\* the target version holds a model named model_prefix ends raising
\* ValueError; it never calls import_model_from_zip, passes nothing to
\* delete_model, and leaves the repository's models as they were.
C1_NoOverwriteRaises ==
    \A p \in Procs :
        (Running(p, "import_model") /\ args[p].force = "False" /\ SameName(p) # {})
        => /\ models = loc[p].before
           /\ loc[p].deleted = {}
           /\ ~Called(p, "import_model_from_zip")
           /\ pc[p] # "import_model_from_zip"
           /\ Ended(p) => (pc[p] = "raised" /\ loc[p].exc = "ValueError")

C1_Witness ==
    \E p \in Procs :
        /\ Running(p, "import_model") /\ args[p].force = "False"
        /\ SameName(p) # {}
        /\ pc[p] = "raised" /\ loc[p].exc = "ValueError"
        /\ ResponseType(loc[p].project_models) = "PagedList"

\* C2: a model_exists call without a force argument that finds a model of
\* the given name in the checked version ends raising ValueError and leaves
\* the repository's models as they were.
C2_DefaultForceRaises ==
    \A p \in Procs :
        (Running(p, "model_exists") /\ args[p].force = "omitted"
            /\ SameName(p) # {} /\ Ended(p))
        => /\ pc[p] = "raised" /\ loc[p].exc = "ValueError"
           /\ loc[p].deleted = {}
           /\ models = loc[p].before

\* C3: an import_model call with overwrite_model=True has, when it comes to
\* call import_model_from_zip and from then on, deleted every model of the
\* target version named model_prefix; at no time has it deleted a model of
\* another name or of another version.
C3_OverwriteDeletesSameName ==
    \A p \in Procs :
        (Running(p, "import_model") /\ args[p].force = "True")
        => /\ loc[p].deleted \subseteq Ids(SameName(p))
           /\ Ids(loc[p].before) \ Ids(SameName(p)) \subseteq Ids(models)
           /\ (pc[p] = "import_model_from_zip" \/ Called(p, "import_model_from_zip"))
              => /\ loc[p].deleted = Ids(SameName(p))
                 /\ Ids(SameName(p)) \cap Ids(models) = {}

C3_Witness ==
    \E p \in Procs :
        /\ Running(p, "import_model") /\ args[p].force = "True"
        /\ pc[p] = "import_model_from_zip"
        /\ ResponseType(loc[p].project_models) = "PagedList"
        /\ Cardinality(loc[p].deleted) = 2
        /\ Ids(models) # {}

\* The same for a version that holds one model (a RestObj response).
C3_WitnessRestObj ==
    \E p \in Procs :
        /\ Running(p, "import_model") /\ args[p].force = "True"
        /\ pc[p] = "import_model_from_zip"
        /\ ResponseType(loc[p].project_models) = "RestObj"
        /\ loc[p].deleted # {}

\* C4: over sequential calls create_project is called at most once, and a
\* call calls it only when its get_project found no project; a call whose
\* get_project found the project goes on with it and creates nothing.
C4_CreateAtMostOnce ==
    /\ createCount <= 1
    /\ \A p \in Procs :
        Running(p, "import_model")
        => /\ Called(p, "create_project")
              => (loc[p].project_response = "None" /\ createCount = 1)
           /\ (Called(p, "project_exists") /\ loc[p].project_response # "None")
              => (~Called(p, "create_project") /\ loc[p].exc # "SystemError"
                  /\ loc[p].project = ProjectName)

C4_Witness ==
    \E p \in Procs :
        /\ Running(p, "import_model") /\ args[p].project = ProjectName
        /\ createCount = 1 /\ ncalls = 2
        /\ Called(p, "project_exists") /\ ~Called(p, "create_project")
        /\ loc[p].project_response = ProjectName

\* C5: an import_model call whose project argument parses as a UUID and
\* whose get_project found no project raises SystemError in project_exists:
\* it creates no project, deletes no model and imports nothing.
C5_UnknownUUIDRaises ==
    \A p \in Procs :
        (Running(p, "import_model") /\ ParsesAsUUID(args[p].project)
            /\ Called(p, "get_project") /\ loc[p].project_response = "None"
            /\ pc[p] # "project_exists")
        => /\ pc[p] = "raised" /\ loc[p].exc = "SystemError"
           /\ ~Called(p, "create_project")
           /\ ~Called(p, "model_exists")
           /\ ~Called(p, "import_model_from_zip")
           /\ loc[p].deleted = {}
           /\ projects = {} /\ createCount = 0
           /\ models = loc[p].before

C5_Witness ==
    \E p \in Procs :
        /\ Running(p, "import_model") /\ ParsesAsUUID(args[p].project)
        /\ loc[p].project_response = "None"
        /\ pc[p] = "raised" /\ loc[p].exc = "SystemError"

\* C6: the client's check gives no exclusion: a call with
\* overwrite_model=False that has passed model_exists knows only that the
\* list it fetched held no model of its name, so two interleaved calls with
\* the same model_prefix can both stand before import_model_from_zip (the
\* witness), and the repository alone decides whether both models are kept.
C6_CheckIsOnSnapshot ==
    \A p \in Procs :
        (Running(p, "import_model") /\ args[p].force = "False"
            /\ (pc[p] = "import_model_from_zip" \/ Called(p, "import_model_from_zip")))
        => \A i \in 1..Len(loc[p].project_models) :
               loc[p].project_models[i].name # args[p].model_prefix

C6_Witness ==
    \E p, q \in Procs :
        /\ p # q
        /\ pc[p] = "import_model_from_zip" /\ pc[q] = "import_model_from_zip"
        /\ args[p].model_prefix = args[q].model_prefix
        /\ args[p].project = args[q].project
        /\ VersionId(args[p].project_version) = VersionId(args[q].project_version)
        /\ args[p].force = "False" /\ args[q].force = "False"

\* The index of the first call of a collaborator in a call's log, 0 if none.
Pos(p, name) ==
    IF Called(p, name)
    THEN CHOOSE i \in 1..Len(loc[p].log) :
             /\ loc[p].log[i] = name
             /\ \A j \in 1..(i - 1) : loc[p].log[j] # name
    ELSE 0

\* C7: on Viya 4 write_score_code is called before zip_files and before
\* import_model_from_zip, and the zip that is uploaded holds the score
\* code; on Viya 3.5 zip_files and import_model_from_zip are called first,
\* write_score_code only after them and with the imported model, and the
\* zip never holds the score code.
C7_ScoreCodeOrder ==
    \A p \in Procs :
        /\ (Running(p, "import_model") /\ loc[p].branch = "viya4")
           => /\ Called(p, "zip_files")
                 => /\ Pos(p, "write_score_code") = 1
                    /\ Pos(p, "write_score_code") < Pos(p, "zip_files")
                    /\ "score" \in loc[p].zip_io_file.files
                    /\ loc[p].zip_io_file.is_viya4
              /\ Called(p, "import_model_from_zip")
                 => Pos(p, "zip_files") < Pos(p, "import_model_from_zip")
              /\ loc[p].model # NoneVal => loc[p].model.hasScore
              /\ loc[p].score_model = NoneVal
        /\ (Running(p, "import_model") /\ loc[p].branch = "viya35")
           => /\ Called(p, "zip_files")
                 => /\ "score" \notin loc[p].zip_io_file.files
                    /\ ~loc[p].zip_io_file.is_viya4
              /\ loc[p].model # NoneVal => ~loc[p].model.hasScore
              /\ Called(p, "write_score_code")
                 => /\ Pos(p, "zip_files") = 1
                    /\ Pos(p, "zip_files") < Pos(p, "import_model_from_zip")
                    /\ Pos(p, "import_model_from_zip") < Pos(p, "write_score_code")
                    /\ loc[p].score_model = loc[p].model
                    /\ loc[p].model # NoneVal
              /\ pc[p] = "done" => Called(p, "write_score_code")

C7_Witness ==
    \E p \in Procs :
        /\ Running(p, "import_model") /\ loc[p].branch = "viya35"
        /\ pc[p] = "done"
        /\ Called(p, "write_score_code")
        /\ "score" \in loc[p].files

\* The same on Viya 4.
C7_WitnessViya4 ==
    \E p \in Procs :
        /\ Running(p, "import_model") /\ loc[p].branch = "viya4"
        /\ pc[p] = "done"
        /\ loc[p].model.hasScore

\* What a no-score call does: it has warned, has not consulted the session's
\* version, never calls write_score_code, zips with is_viya4=False, and when
\* it returns it has made the project check, the model check and the upload.
NoScoreBehaviour(p) ==
    /\ loc[p].warned
    /\ ~loc[p].version_checked
    /\ ~Called(p, "write_score_code")
    /\ loc[p].files = {"model"}
    /\ Called(p, "zip_files") => ~loc[p].zip_io_file.is_viya4
    /\ pc[p] = "done"
       => /\ loc[p].log \in
                {<<"zip_files", "get_project", "project_exists", "model_exists",
                   "import_model_from_zip">>,
                 <<"zip_files", "get_project", "project_exists", "create_project",
                   "model_exists", "import_model_from_zip">>}
          /\ loc[p].ret = loc[p].model
          /\ loc[p].model \in {Response("import_model_from_zip", m) : m \in models}

\* Missing as the claim has it: None or empty.
Missing(v) == v \in {"None", "empty", "[]"}

\* C8 as stated: a call in which any of input_data, predict_method or
\* score_metrics is None or empty behaves as a no-score call.
C8_AnyMissingNoScore ==
    \A p \in Procs :
        (Running(p, "import_model")
            /\ (Missing(args[p].input_data) \/ Missing(args[p].predict_method)
                   \/ Missing(args[p].score_metrics)))
        => NoScoreBehaviour(p)

\* C8 as amended: a call in which input_data is None, or predict_method or
\* score_metrics is None or empty, behaves as a no-score call, whatever the
\* session's version (an empty input_data does not count as missing).
C8_NoneOrEmptyListNoScore ==
    \A p \in Procs :
        (Running(p, "import_model")
            /\ (args[p].input_data = "None" \/ Missing(args[p].predict_method)
                   \/ Missing(args[p].score_metrics)))
        => NoScoreBehaviour(p)

C8_Witness ==
    \E p \in Procs :
        /\ Running(p, "import_model")
        /\ args[p].predict_method = "[]"
        /\ viya = 4
        /\ pc[p] = "done"
        /\ loc[p].warned

\* C9: in every branch, the first element of the tuple import_model returns
\* is the response of import_model_from_zip.
C9_ReturnsImportResponse ==
    \A p \in Procs :
        (Running(p, "import_model") /\ pc[p] = "done")
        => /\ loc[p].ret = loc[p].model
           /\ loc[p].ret.call = "import_model_from_zip"

\* C10: calculateFitStat with validateData, trainData and testData all None
\* raises ValueError and leaves dmcas_fitstat.json as it was: not created if
\* it did not exist, not overwritten if it did.
C10_NoDataNoFile ==
    [][(/\ fitCall'.n = fitCall.n + 1
        /\ fitCall'.op = "calculateFitStat"
        /\ fitCall'.validateData = "None"
        /\ fitCall'.trainData = "None"
        /\ fitCall'.testData = "None")
       => (fitCall'.exc = "ValueError" /\ fitFile' = fitFile)]_vars

C10_Witness ==
    /\ fitCall.op = "calculateFitStat"
    /\ fitCall.validateData = "None"
    /\ fitCall.trainData = "None"
    /\ fitCall.testData = "None"
    /\ fitCall.exc = "ValueError"
    /\ fitCall.n = 1
    /\ ~fitFile.exists

\* The same with a file that an earlier call wrote.
C10_WitnessExisting ==
    /\ fitCall.op = "calculateFitStat"
    /\ fitCall.validateData = "None"
    /\ fitCall.trainData = "None"
    /\ fitCall.testData = "None"
    /\ fitCall.exc = "ValueError"
    /\ fitFile.exists

\* C11: generateROCLiftStat with validateData, trainData and testData all
\* None raises ValueError without a call on the CAS connection, and leaves
\* dmcas_roc.json and dmcas_lift.json as they were.
C11_NoDataNoCasNoFiles ==
    [][(/\ fitCall'.n = fitCall.n + 1
        /\ fitCall'.op = "generateROCLiftStat"
        /\ fitCall'.validateData = "None"
        /\ fitCall'.trainData = "None"
        /\ fitCall'.testData = "None")
       => /\ fitCall'.exc = "ValueError"
          /\ fitCall'.cas = <<>>
          /\ rocFile' = rocFile
          /\ liftFile' = liftFile]_vars

C11_Witness ==
    /\ fitCall.op = "generateROCLiftStat"
    /\ fitCall.validateData = "None"
    /\ fitCall.trainData = "None"
    /\ fitCall.testData = "None"
    /\ fitCall.exc = "ValueError"
    /\ fitCall.n = 1
    /\ ~rocFile.exists /\ ~liftFile.exists

\* The same with files that an earlier call wrote.
C11_WitnessExisting ==
    /\ fitCall.op = "generateROCLiftStat"
    /\ fitCall.validateData = "None"
    /\ fitCall.trainData = "None"
    /\ fitCall.testData = "None"
    /\ fitCall.exc = "ValueError"
    /\ rocFile.exists /\ liftFile.exists

\* The calls on the model repository that import_model orders.
IsRepositoryCall(name) ==
    name \in {"get_project", "project_exists", "create_project", "model_exists",
              "import_model_from_zip"}

IsPrefix(s, t) == Len(s) <= Len(t) /\ \A i \in 1..Len(s) : s[i] = t[i]

\* C12: in every branch of import_model the calls on the repository come in
\* one order: get_project, project_exists (which may call create_project),
\* model_exists, import_model_from_zip. import_model_from_zip is called at
\* most once, and only after both checks have returned without an error.
C12_FixedOrder ==
    \A p \in Procs :
        Running(p, "import_model")
        => LET calls == SelectSeq(loc[p].log, IsRepositoryCall)
           IN /\ \/ IsPrefix(calls, <<"get_project", "project_exists",
                                      "model_exists", "import_model_from_zip">>)
                 \/ IsPrefix(calls, <<"get_project", "project_exists",
                                      "create_project", "model_exists",
                                      "import_model_from_zip">>)
              /\ (pc[p] = "import_model_from_zip" \/ Called(p, "import_model_from_zip"))
                 => /\ Called(p, "project_exists") /\ Called(p, "model_exists")
                    /\ loc[p].exc \in {"None", "HTTPError"}
                    /\ pc[p] = "import_model_from_zip" => loc[p].exc = "None"
              /\ pc[p] = "done" => Called(p, "import_model_from_zip")

C12_Witness ==
    \E p \in Procs :
        /\ Running(p, "import_model")
        /\ loc[p].branch = "viya35"
        /\ pc[p] = "done"
        /\ loc[p].deleted # {}
        /\ Called(p, "import_model_from_zip")

\* The entry calculateFitStat is to write at index j for partition argument
\* d: the template's entry if d is None, and otherwise that entry with
\* _PartInd_ j, the statistics of d, and _KSPostCutoff_ and _KSCut_ null.
Filled(j, d, entry) ==
    IF d = "None"
    THEN entry = NullTemplate.data[j]
    ELSE /\ entry.metrics = d
         /\ entry._PartInd_ = Num(j)
         /\ entry._KSPostCutoff_ = Null
         /\ entry._KSCut_ = Null
         /\ entry._NObs_ = Num(NObs(d))
         /\ entry._DIV_ = Num(NObs(d))
         /\ entry.rowNumber = NullTemplate.data[j].rowNumber

\* C13: the file calculateFitStat writes holds validateData's statistics in
\* data[0], trainData's in data[1] and testData's in data[2], each with
\* _PartInd_ its index and _KSPostCutoff_ and _KSCut_ null; the entry of a
\* partition passed as None is the null template's.
C13_OnlyGivenPartitions ==
    (fitCall.op = "calculateFitStat" /\ fitCall.exc = "None")
    => /\ fitFile.exists
       /\ DOMAIN fitFile.data = 0..2
       /\ Filled(0, fitCall.validateData, fitFile.data[0])
       /\ Filled(1, fitCall.trainData, fitFile.data[1])
       /\ Filled(2, fitCall.testData, fitFile.data[2])

C13_Witness ==
    /\ fitCall.op = "calculateFitStat" /\ fitCall.exc = "None"
    /\ fitCall.validateData = "None"
    /\ fitCall.trainData = "d1"
    /\ fitCall.testData = "None"
    /\ fitFile.data[1]._PartInd_ = Num(1)
    /\ fitFile.data[0] = NullTemplate.data[0]

\* The entries of data that calculateFitStat fills when only the partition
\* of the role is given.
CalcEntries(role) ==
    LET r == calculateFitStat(IF role = "VALIDATE" THEN "d1" ELSE "None",
                              IF role = "TRAIN" THEN "d1" ELSE "None",
                              IF role = "TEST" THEN "d1" ELSE "None",
                              NoFile)
    IN {i \in 0..2 : r.file.data[i] # NullTemplate.data[i]}

\* The entries of data that differ from the null template's.
BaseEntries == {i \in 0..2 : fitFile.data[i] # NullTemplate.data[i]}

\* writeBaseFitStat was called with one valid tuple of the role.
WroteRole(role) ==
    /\ fitCall.op = "writeBaseFitStat"
    /\ fitCall.exc = "None"
    /\ Len(fitCall.tupleList) = 1
    /\ fitCall.tupleList[1].len = 3
    /\ Key(formatParameter(fitCall.tupleList[1].name)) \in validParams
    /\ fitCall.tupleList[1].role = StrRole(role)

\* C14: the entry of data that writeBaseFitStat fills for role TRAIN, TEST
\* or VALIDATE is the entry that calculateFitStat fills for trainData,
\* testData or validateData.
C14_WritersAgree ==
    \A role \in {"TRAIN", "TEST", "VALIDATE"} :
        WroteRole(role) => BaseEntries = CalcEntries(role)

====
